---- MODULE Spec2Model ----
(***************************************************************************)
(* Model of the JACK output backend of Shairport Sync (audio_jack.c).      *)
(*                                                                         *)
(* Three execution contexts share the state of the backend:                *)
(*   - the producer (player) thread: play, jack_start, jack_stop,          *)
(*     jack_deinit;                                                        *)
(*   - the JACK real-time thread: jack_stream_write_cb;                    *)
(*   - the poller thread: open_client_if_necessary_thread_function.        *)
(* jack_flush is modelled as a call that may arrive from any thread while  *)
(* a play is in progress.                                                  *)
(*                                                                         *)
(* Addresses are byte offsets from audio_lmb, so audio_lmb = 0 and         *)
(* audio_umb = buffer_size.  The audio buffer is modelled byte by byte.    *)
(* Floating-point output samples are modelled as exact rationals           *)
(* <<numerator, denominator>>.                                             *)
(***************************************************************************)
EXTENDS Integers, Sequences, FiniteSets, TLC

\* ------------------------------------------------------------------ bounds
CapFrames  == 3     \* frames the audio buffer holds (44100 * 4 in the source)
MaxPushed  == 4     \* frames the producer pushes in one run
MaxNframes == 3     \* largest period the JACK server asks the callback for
MaxSessions == 2    \* client sessions the JACK server accepts at a time
MaxTime    == 2     \* clock steps in one run

\* --------------------------------------------------------------- constants
buffer_size == CapFrames * 2 * 2
SHRT_MAX == 32767
SHRT_MIN == -32768
NominalRate == 44100
NULL == 0

audio_lmb == 0
\* the upper bound put one frame past the end of the buffer
audio_umb_past_end == audio_lmb + buffer_size + 2 * 2
audio_umb == audio_lmb + buffer_size

Uninit == -1                  \* a byte of the malloc'd buffer never written
Indeterminate == <<0, 0>>     \* an output sample whose value is not defined
Silence == <<0, 1>>           \* the literal 0.0

SinkModes == {"ok", "no_server", "wrong_rate", "left_port_fail",
              "right_port_fail", "latency_cb_fail", "activate_fail"}
PollIntervals == {0, 1}

\* get_absolute_time_in_fp returns seconds as 32.32 fixed point.  The clock
\* of the model reads multiples of 2^ClockStepBits of these units, and the
\* variables that hold a time hold it as a number of such clock steps.
ClockStepBits == 16

\* the playback latency ranges the two ports can report, in frames: none
\* on either, none on the left only, some on both
NoLatency == [min |-> 0, max |-> 0]
SomeLatency == [min |-> 1, max |-> 3]
PortLatencies == {[left |-> NoLatency, right |-> NoLatency],
                  [left |-> NoLatency, right |-> SomeLatency],
                  [left |-> SomeLatency, right |-> SomeLatency]}

VARIABLES
  \* the circular buffer
  storage, audio_eoq, audio_toq, audio_occupancy, buffer_mutex,
  \* producer thread: position and locals of play
  prod_pc, samples, space_to_end_of_buffer, play_result,
  \* real-time thread: position, locals and output port buffers
  rt_pc, nframes, frames_we_can_transfer, left_buffer, right_buffer,
  \* connection
  client_is_open, client, left_port, right_port, sample_rate, client_mutex,
  \* the JACK server (Sink): live sessions, activated sessions, health
  sessions, active, sink,
  \* configuration
  jack_auto_client_open_interval, jack_auto_client_disconnect,
  \* poller thread
  poller_pc, cancel_requested,
  \* the clock, and the latency range the server reports for each port
  now, port_latency,
  \* what the callback records of its latest transfer
  time_of_latest_transfer, latest_left_latency_range,
  latest_right_latency_range,
  \* locals and result of jack_delay
  time_now, delta, audio_occupancy_now, the_delay,
  \* history: frames committed by play; frames delivered by the callback;
  \* free frames when the latest play was called; whether some play was
  \* called with more frames than were free; whether a flush happened with
  \* no play committed since; whether the latest transfer came after such
  \* a flush; which thread made the open attempt that opened the client;
  \* which call closed it
  frames_pushed, frames_pulled, free_at_call, overflowed, flushed_clean,
  cb_after_flush, opened_by, closed_by,
  \* history for jack_delay: the occupancy when jack_delay read the time of
  \* the latest transfer; whether a transfer came between that read and the
  \* read of the occupancy; the clock reading of the latest estimate (-1
  \* when there is none, or when a commit, a transfer or a flush came since
  \* its snapshot was taken); whether no commit, transfer or flush came
  \* since the latest snapshot of jack_delay
  delay_expect, pull_between, prev_time_now, steady,
  \* history for flush: whether a flush came after a play had copied its
  \* bytes and before it took the lock ("flushed"), and whether that play
  \* has since committed with no play or transfer after it ("done")
  race,
  \* one sample handed to the converter, and what came out of it
  conv_in, conv_out

bufvars  == <<storage, audio_eoq, audio_toq, audio_occupancy, buffer_mutex>>
playvars == <<samples, space_to_end_of_buffer, play_result>>
rtvars   == <<rt_pc, nframes, frames_we_can_transfer, left_buffer, right_buffer>>
connvars == <<client_is_open, client, left_port, right_port, sample_rate,
              client_mutex, sessions, active>>
cfgvars  == <<jack_auto_client_open_interval, jack_auto_client_disconnect>>
pollvars == <<poller_pc, cancel_requested>>
histvars == <<frames_pushed, frames_pulled, free_at_call, overflowed,
              flushed_clean, cb_after_flush, opened_by, closed_by>>

envvars  == <<now, port_latency>>
xfervars == <<time_of_latest_transfer, latest_left_latency_range,
              latest_right_latency_range>>
delayvars == <<time_now, delta, audio_occupancy_now, the_delay>>
delayhist == <<delay_expect, pull_between,
               prev_time_now, steady>>
racehist == <<race>>
convvars == <<conv_in, conv_out>>
restvars == <<envvars, xfervars, delayvars, delayhist, racehist, convvars>>

vars == <<bufvars, prod_pc, playvars, rtvars, connvars, sink, cfgvars,
          pollvars, histvars, restvars>>

Min(a, b) == IF a <= b THEN a ELSE b

\* a mutex left with the thread that held it
pthread_mutex_unlock_forgotten(holder) == holder

\* what pthread_mutex_unlock leaves of a mutex held by holder
pthread_mutex_unlock(holder) == "free"

\* ------------------------------------------------------- samples and bytes
\* The frames the producer hands to play are numbered 1, 2, 3, ... in the
\* order they are pushed; frame n carries these two 16-bit samples.
LeftSampleOf(n)  == IF n = 1 THEN SHRT_MAX ELSE (n * 4099) % 32768
RightSampleOf(n) == IF n = 1 THEN SHRT_MIN ELSE -((n * 4099) % 32768)

\* a short as two bytes in memory (little-endian two's complement)
ShortToBytes(s) ==
  LET u == (s + 65536) % 65536 IN <<u % 256, u \div 256>>

BytesToShort(lo, hi) ==
  LET u == lo + 256 * hi IN IF u >= 32768 THEN u - 65536 ELSE u

\* the caller's buffer: n interleaved frames, the first being frame first
BufBytes(first, n) ==
  [k \in 1..(4 * n) |->
     LET f == first + ((k - 1) \div 4)
         b == (k - 1) % 4
     IN IF b < 2 THEN ShortToBytes(LeftSampleOf(f))[b + 1]
                 ELSE ShortToBytes(RightSampleOf(f))[b - 1]]

\* memcpy(dst, src + skip, n) into the audio buffer
Memcpy(mem, dst, src, skip, n) ==
  [a \in DOMAIN mem |->
     IF a >= dst /\ a < dst + n THEN src[skip + (a - dst) + 1] ELSE mem[a]]

\* the quotient n / d, kept with a positive denominator
Quotient(n, d) == IF d < 0 THEN <<-n, -d>> ELSE <<n, d>>

\* every sample divided by SHRT_MAX
ConvertSampleOneDivisor(sample) == Quotient(1 * sample, SHRT_MAX)

\* the conversion of one sample (lines 120-126)
ConvertSample(sample) ==
  IF sample >= 0 THEN Quotient(1 * sample, SHRT_MAX)
  ELSE Quotient(-(1 * sample), SHRT_MIN)

IFT_frame_left_sample == 0
IFT_frame_right_sample == 1

\* the short at byte address a of the audio buffer
ShortAt(mem, a) ==
  IF mem[a] = Uninit \/ mem[a + 1] = Uninit THEN Uninit
  ELSE BytesToShort(mem[a], mem[a + 1])

\* deinterleave_and_convert_stream: the number_of_frames values it stores
deinterleave_and_convert_stream(mem, interleaved_frames, number_of_frames, side) ==
  [i \in 1..number_of_frames |->
     LET ifp == interleaved_frames + 2 * side + 4 * (i - 1)
     IN IF ShortAt(mem, ifp) = Uninit THEN Indeterminate
        ELSE ConvertSample(ShortAt(mem, ifp))]

\* out with the values vals stored at out[from], out[from + 1], ... (1-based)
Store(out, from, vals) ==
  [i \in DOMAIN out |->
     IF i >= from /\ i < from + Len(vals) THEN vals[i - from + 1] ELSE out[i]]

IsZero(x) == x[2] # 0 /\ x[1] = 0
SameValue(x, y) == x[2] # 0 /\ y[2] # 0 /\ x[1] * y[2] = y[1] * x[2]

\* ------------------------------------------------------------ the JACK client
\* The connection fields as one record, so that the open attempt can be used
\* both by jack_init and by the threads that call it later.
ConnRec(cio, cl, lp, rp, sr, ss, ac) ==
  [client_is_open |-> cio, client |-> cl, left_port |-> lp, right_port |-> rp,
   sample_rate |-> sr, sessions |-> ss, active |-> ac]

\* jack_client_open: a new session handle, or NULL when there is no server
\* or the server accepts no further client
jack_client_open(mode, ss) ==
  IF mode = "no_server" \/ Cardinality(ss) >= MaxSessions THEN NULL
  ELSE CHOOSE h \in (1..MaxSessions) \ ss :
         \A g \in (1..MaxSessions) \ ss : h <= g

\* lines 236-264 of jack_client_open_if_needed, between lock and unlock
OpenAttempt(c, mode) ==
  IF c.client_is_open # 0 THEN c
  ELSE
    LET h == jack_client_open(mode, c.sessions) IN
    IF h = NULL THEN [c EXCEPT !.client = NULL]
    ELSE
      LET lp == IF mode = "left_port_fail" THEN NULL ELSE h
          rp == IF mode = "right_port_fail" THEN NULL ELSE h
          sr == IF mode = "wrong_rate" THEN 48000 ELSE NominalRate
          activated == /\ sr = 44100
                       /\ mode # "latency_cb_fail"
                       /\ mode # "activate_fail"
      IN ConnRec(IF activated THEN 1 ELSE 0, h, lp, rp, sr,
                 c.sessions \cup {h},
                 IF activated THEN c.active \cup {h} ELSE c.active)

\* a close that forgets to clear client_is_open
CloseAttemptKeepsFlag(c) ==
  IF c.client_is_open # 0
  THEN [c EXCEPT !.sessions = c.sessions \ {c.client},
                 !.active = c.active \ {c.client}]
  ELSE c

\* lines 271-277 of jack_close, between lock and unlock
CloseAttempt(c) ==
  IF c.client_is_open # 0
  THEN [c EXCEPT !.client_is_open = 0,
                 !.sessions = c.sessions \ {c.client},
                 !.active = c.active \ {c.client}]
  ELSE c

CurrentConn ==
  ConnRec(client_is_open, client, left_port, right_port, sample_rate,
          sessions, active)

SetConn(c) ==
  /\ client_is_open' = c.client_is_open
  /\ client' = c.client
  /\ left_port' = c.left_port
  /\ right_port' = c.right_port
  /\ sample_rate' = c.sample_rate
  /\ sessions' = c.sessions
  /\ active' = c.active

\* ------------------------------------------------------------------- Init
\* The state when jack_init returns (lines 301-387).
InitBackend ==
  /\ storage = [a \in 0..(buffer_size - 1) |-> Uninit]
  /\ audio_eoq = audio_lmb
  /\ audio_toq = audio_lmb
  /\ audio_occupancy = 0
  /\ buffer_mutex = "free"
  /\ prod_pc = "idle"
  /\ samples = 0
  /\ space_to_end_of_buffer = 0
  /\ play_result = "none"
  /\ rt_pc = "idle"
  /\ nframes = 0
  /\ frames_we_can_transfer = 0
  /\ left_buffer = <<>>
  /\ right_buffer = <<>>
  /\ client_mutex = "free"
  /\ sink \in SinkModes
  /\ jack_auto_client_open_interval \in PollIntervals
  /\ jack_auto_client_disconnect \in BOOLEAN
  \* lines 372-384: the poller thread is started when an interval is
  \* configured and its pthread_t can be allocated; otherwise jack_init
  \* makes one open attempt itself
  /\ poller_pc \in IF jack_auto_client_open_interval # 0
                   THEN {"check", "none"} ELSE {"none"}
  /\ LET closed == ConnRec(0, NULL, NULL, NULL, 0, {}, {})
         c == IF poller_pc # "none" THEN closed
              ELSE OpenAttempt(closed, sink)
     IN /\ client_is_open = c.client_is_open
        /\ client = c.client
        /\ left_port = c.left_port
        /\ right_port = c.right_port
        /\ sample_rate = c.sample_rate
        /\ sessions = c.sessions
        /\ active = c.active
  /\ cancel_requested = FALSE
  /\ frames_pushed = 0
  /\ frames_pulled = 0
  /\ free_at_call = CapFrames
  /\ overflowed = FALSE
  /\ flushed_clean = FALSE
  /\ cb_after_flush = FALSE
  /\ opened_by = IF client_is_open = 1 THEN "init" ELSE "none"
  /\ closed_by = "none"
  /\ now = 0
  \* lines 85-86: statics, zero until the first transfer
  /\ time_of_latest_transfer = 0
  /\ latest_left_latency_range = NoLatency
  /\ latest_right_latency_range = NoLatency
  /\ time_now = 0
  /\ delta = 0
  /\ audio_occupancy_now = 0
  /\ the_delay = 0
  /\ delay_expect = 0
  /\ pull_between = FALSE
  /\ prev_time_now = -1
  /\ steady = FALSE
  /\ race = "none"

\* no sample has been handed to the converter; a port reports no latency
\* until something is connected to it
Init ==
  /\ InitBackend
  /\ port_latency = [left |-> NoLatency, right |-> NoLatency]
  /\ conv_in = 0
  /\ conv_out = Indeterminate

\* ------------------------------------------------------------------- play
bytes_to_transfer == samples * 2 * 2

\* lines 91-92: the call, with its argument, and the two size computations
PlayBegin ==
  /\ prod_pc = "idle"
  /\ \E n \in 1..CapFrames :
       /\ frames_pushed + n <= MaxPushed
       /\ samples' = n
       /\ free_at_call' = CapFrames - audio_occupancy
       /\ overflowed' = (overflowed \/ n > CapFrames - audio_occupancy)
  /\ space_to_end_of_buffer' = audio_umb - audio_eoq
  /\ play_result' = "none"
  /\ prod_pc' = "copy"
  /\ race' = "none"
  /\ UNCHANGED <<bufvars, rtvars, connvars, sink, cfgvars, pollvars,
                 frames_pushed, frames_pulled, flushed_clean, cb_after_flush,
                 opened_by, closed_by, envvars, xfervars, delayvars,
                 delayhist, convvars>>

\* the first call of play in a run
FirstPlay == frames_pushed = 0 /\ PlayBegin

\* the copy with the second part taken from the start of buf again
PlayCopyBytesNoAdvance(mem, eoq, buf, n, space) ==
  IF space >= n THEN Memcpy(mem, eoq, buf, 0, n)
  ELSE Memcpy(Memcpy(mem, eoq, buf, 0, space), audio_lmb, buf, 0, n - space)

\* lines 93-94 and 100-102: the copy into the queue, outside the lock
PlayCopyBytes(mem, eoq, buf, n, space) ==
  IF space >= n THEN Memcpy(mem, eoq, buf, 0, n)
  ELSE Memcpy(Memcpy(mem, eoq, buf, 0, space), audio_lmb, buf, space, n - space)

PlayCopy ==
  /\ prod_pc = "copy"
  /\ storage' = PlayCopyBytes(storage, audio_eoq,
                              BufBytes(frames_pushed + 1, samples),
                              bytes_to_transfer, space_to_end_of_buffer)
  /\ prod_pc' = "lock"
  /\ UNCHANGED <<audio_eoq, audio_toq, audio_occupancy, buffer_mutex,
                 playvars, rtvars, connvars, sink, cfgvars, pollvars, histvars, restvars>>

\* lines 95 and 103
PlayLock ==
  /\ prod_pc = "lock"
  /\ buffer_mutex = "free"
  /\ buffer_mutex' = "producer"
  /\ prod_pc' = "commit"
  /\ UNCHANGED <<storage, audio_eoq, audio_toq, audio_occupancy,
                 playvars, rtvars, connvars, sink, cfgvars, pollvars, histvars, restvars>>

\* the occupancy counted in bytes instead of frames
PlayNewOccupancyInBytes(occ, n) == occ + n * 2 * 2

\* lines 96-97 and 104-105: the new occupancy and end of queue
PlayNewOccupancy(occ, n) == occ + n

PlayNewEoq(eoq, n, space) ==
  IF space >= n THEN eoq + n ELSE audio_lmb + n - space

\* lines 96-98 and 104-108: the update under the lock, unlock, return 0
PlayCommit ==
  /\ prod_pc = "commit"
  /\ buffer_mutex = "producer"
  /\ audio_occupancy' = PlayNewOccupancy(audio_occupancy, samples)
  /\ audio_eoq' = PlayNewEoq(audio_eoq, bytes_to_transfer, space_to_end_of_buffer)
  /\ buffer_mutex' = pthread_mutex_unlock(buffer_mutex)
  /\ play_result' = "ok"
  /\ prod_pc' = "idle"
  /\ frames_pushed' = frames_pushed + samples
  /\ flushed_clean' = FALSE
  /\ steady' = FALSE
  /\ prev_time_now' = -1
  /\ race' = IF race = "flushed" THEN "done" ELSE "none"
  /\ UNCHANGED <<storage, audio_toq, samples, space_to_end_of_buffer,
                 rtvars, connvars, sink, cfgvars, pollvars,
                 frames_pulled, free_at_call, overflowed, cb_after_flush,
                 opened_by, closed_by, envvars, xfervars, delayvars,
                 delay_expect, pull_between, convvars>>

\* --------------------------------------------------- jack_stream_write_cb
\* The JACK server runs the process callback of an activated client.  A
\* callback on a port that was never registered has no buffer to write to
\* and is not modelled.
CallbackCanRun ==
  /\ active # {}
  /\ left_port # NULL
  /\ right_port # NULL

\* lines 135-141: the call, with the port buffers for this period
CbBegin ==
  /\ rt_pc = "idle"
  /\ CallbackCanRun
  /\ \E n \in 1..MaxNframes :
       /\ nframes' = n
       /\ frames_we_can_transfer' = n
       /\ left_buffer' = [i \in 1..n |-> Indeterminate]
       /\ right_buffer' = [i \in 1..n |-> Indeterminate]
  /\ rt_pc' = "lock"
  /\ UNCHANGED <<bufvars, prod_pc, playvars, connvars, sink, cfgvars,
                 pollvars, histvars, restvars>>

\* line 142
CbLock ==
  /\ rt_pc = "lock"
  /\ buffer_mutex = "free"
  /\ buffer_mutex' = "rt"
  /\ rt_pc' = "transfer"
  /\ UNCHANGED <<storage, audio_eoq, audio_toq, audio_occupancy, prod_pc,
                 playvars, nframes, frames_we_can_transfer, left_buffer,
                 right_buffer, connvars, sink, cfgvars, pollvars, histvars,
                 restvars>>

\* lines 143-148
FramesWeCanTransfer(requested, occ) ==
  IF occ < requested THEN occ ELSE requested

\* lines 150-173: what one port buffer holds after the transfer of n frames
TransferOut(mem, toq, out, n, side) ==
  IF n * 2 * 2 <= audio_umb - toq
  THEN Store(out, 1, deinterleave_and_convert_stream(mem, toq, n, side))
  ELSE
    LET first_portion_to_write == (audio_umb - toq) \div (2 * 2)
        out1 == IF first_portion_to_write # 0
                THEN Store(out, 1,
                       deinterleave_and_convert_stream(mem, toq,
                                               first_portion_to_write, side))
                ELSE out
    IN Store(out1, first_portion_to_write + 1,
             deinterleave_and_convert_stream(mem, audio_lmb,
                                     n - first_portion_to_write, side))

\* lines 156 and 172: the new top of queue
TransferNewToq(toq, n) ==
  IF n * 2 * 2 <= audio_umb - toq
  THEN toq + n * 2 * 2
  ELSE audio_lmb + (n - ((audio_umb - toq) \div (2 * 2))) * 2 * 2

\* the clock reading, in clock steps
get_absolute_time_in_fp == now

\* the playback latency range the server reports for a port
jack_port_get_latency_range(port) == port_latency[port]

\* lines 143-179: the transfer under the lock, then unlock
CbTransfer ==
  /\ rt_pc = "transfer"
  /\ buffer_mutex = "rt"
  /\ LET n == FramesWeCanTransfer(frames_we_can_transfer, audio_occupancy) IN
       /\ frames_we_can_transfer' = n
       /\ left_buffer' = TransferOut(storage, audio_toq, left_buffer, n,
                                     IFT_frame_left_sample)
       /\ right_buffer' = TransferOut(storage, audio_toq, right_buffer, n,
                                      IFT_frame_right_sample)
       /\ audio_toq' = TransferNewToq(audio_toq, n)
       /\ audio_occupancy' = audio_occupancy - n
       /\ frames_pulled' = frames_pulled + n
  \* lines 176-178
  /\ latest_left_latency_range' = jack_port_get_latency_range("left")
  /\ latest_right_latency_range' = jack_port_get_latency_range("right")
  /\ time_of_latest_transfer' = get_absolute_time_in_fp
  /\ cb_after_flush' = flushed_clean
  /\ pull_between' = (pull_between \/ prod_pc = "delay_occupancy")
  /\ race' = IF race = "flushed" THEN "flushed" ELSE "none"
  /\ steady' = FALSE
  /\ prev_time_now' = -1
  /\ buffer_mutex' = pthread_mutex_unlock(buffer_mutex)
  /\ rt_pc' = "silence"
  /\ UNCHANGED <<storage, audio_eoq, prod_pc, playvars, nframes, connvars,
                 sink, cfgvars, pollvars, frames_pushed, free_at_call,
                 overflowed, flushed_clean, opened_by, closed_by, envvars,
                 delayvars, delay_expect, convvars>>

\* lines 185-188: out with silence from index from (0-based) to the end
SilenceFill(out, from) ==
  [i \in DOMAIN out |-> IF i > from THEN Silence ELSE out[i]]

\* lines 184-189
CbSilence ==
  /\ rt_pc = "silence"
  /\ left_buffer' = SilenceFill(left_buffer, frames_we_can_transfer)
  /\ right_buffer' = SilenceFill(right_buffer, frames_we_can_transfer)
  /\ rt_pc' = "idle"
  /\ UNCHANGED <<bufvars, prod_pc, playvars, nframes, frames_we_can_transfer,
                 connvars, sink, cfgvars, pollvars, histvars, restvars>>

\* ------------------------------------------------------------- jack_flush
\* a flush that forgets the occupancy
FlushResultKeepsOccupancy ==
  [toq |-> audio_lmb, eoq |-> audio_lmb, occupancy |-> audio_occupancy]

\* lines 427-429: the cursors and the occupancy it leaves
FlushResult == [toq |-> audio_lmb, eoq |-> audio_lmb, occupancy |-> 0]

\* lines 424-431, the whole of it under the lock
Flush ==
  /\ buffer_mutex = "free"
  /\ audio_toq' = FlushResult.toq
  /\ audio_eoq' = FlushResult.eoq
  /\ audio_occupancy' = FlushResult.occupancy
  /\ flushed_clean' = TRUE
  /\ steady' = FALSE
  /\ prev_time_now' = -1
  /\ race' = IF prod_pc = "lock" THEN "flushed" ELSE "none"
  /\ UNCHANGED <<storage, buffer_mutex, prod_pc, playvars, rtvars, connvars,
                 sink, cfgvars, pollvars, frames_pushed, frames_pulled,
                 free_at_call, overflowed, cb_after_flush, opened_by,
                 closed_by, envvars, xfervars, delayvars, delay_expect,
                 pull_between, convvars>>

\* ------------------------------------------------------------ the converter
\* lines 120-126 applied to one sample
Convert ==
  /\ conv_out = Indeterminate
  /\ conv_out' = ConvertSample(conv_in)
  /\ UNCHANGED <<bufvars, prod_pc, playvars, rtvars, connvars, sink, cfgvars,
                 pollvars, histvars, envvars, xfervars, delayvars, delayhist,
                 racehist, conv_in>>

\* ------------------------------------------------------------- jack_delay
\* line 404
DelayLock ==
  /\ prod_pc = "idle"
  /\ buffer_mutex = "free"
  /\ buffer_mutex' = "producer"
  /\ prod_pc' = "delay_time"
  /\ UNCHANGED <<storage, audio_eoq, audio_toq, audio_occupancy, playvars,
                 rtvars, connvars, sink, cfgvars, pollvars, histvars,
                 restvars>>

\* the mutex given up before the occupancy is read
DelayMutexReleasedEarly == "free"

\* lines 404-411: the mutex stays with the caller between the two reads
DelayMutexBetweenReads == "producer"

\* lines 405-406: the clock and the time of the latest transfer
DelayReadTime ==
  /\ prod_pc = "delay_time"
  /\ time_now' = get_absolute_time_in_fp
  /\ delta' = time_now' - time_of_latest_transfer
  /\ buffer_mutex' = DelayMutexBetweenReads
  /\ delay_expect' = audio_occupancy
  /\ pull_between' = FALSE
  /\ prod_pc' = "delay_occupancy"
  /\ UNCHANGED <<storage, audio_eoq, audio_toq, audio_occupancy, playvars,
                 rtvars, connvars, sink, cfgvars, pollvars, histvars,
                 envvars, xfervars, audio_occupancy_now, the_delay,
                 prev_time_now, steady, racehist,
                 convvars>>

\* lines 408-411: the occupancy, then unlock
DelayReadOccupancy ==
  /\ prod_pc = "delay_occupancy"
  /\ audio_occupancy_now' = audio_occupancy
  /\ buffer_mutex' = pthread_mutex_unlock(buffer_mutex)
  /\ steady' = TRUE
  /\ prod_pc' = "delay_compute"
  /\ UNCHANGED <<storage, audio_eoq, audio_toq, audio_occupancy, playvars,
                 rtvars, connvars, sink, cfgvars, pollvars, histvars,
                 envvars, xfervars, time_now, delta, the_delay,
                 delay_expect, pull_between, prev_time_now,
                 racehist, convvars>>

\* line 413: (delta * 44100) >> 32, delta being d clock steps
frames_processed_since_latest_latency_check(d) ==
  (d * 44100) \div 2^(32 - ClockStepBits)

\* lines 415-417
base_latency(left_range, right_range) ==
  LET b == (left_range.min + left_range.max) \div 2
  IN IF b = 0 THEN (right_range.min + right_range.max) \div 2 ELSE b

\* the elapsed frames added instead of subtracted
DelayResultAdds(base, occ, d) ==
  base + occ + frames_processed_since_latest_latency_check(d)

\* line 418
DelayResult(base, occ, d) ==
  base + occ - frames_processed_since_latest_latency_check(d)

\* lines 413-421: the estimate, computed after the unlock, and return 0;
\* the locals are gone when it returns
DelayCompute ==
  /\ prod_pc = "delay_compute"
  /\ the_delay' = DelayResult(base_latency(latest_left_latency_range,
                                           latest_right_latency_range),
                              audio_occupancy_now, delta)
  /\ time_now' = 0
  /\ delta' = 0
  /\ audio_occupancy_now' = 0
  /\ prev_time_now' = IF steady THEN time_now ELSE -1
  /\ prod_pc' = "idle"
  /\ UNCHANGED <<bufvars, playvars, rtvars, connvars, sink, cfgvars,
                 pollvars, histvars, envvars, xfervars,
                 delay_expect, pull_between, steady, racehist,
                 convvars>>

\* ---------------------------------------------------- clock and latencies
\* the clock advances
Tick ==
  /\ now < MaxTime
  /\ now' = now + 1
  /\ UNCHANGED <<bufvars, prod_pc, playvars, rtvars, connvars, sink, cfgvars,
                 pollvars, histvars, port_latency, xfervars, delayvars,
                 delayhist, racehist, convvars>>

\* the JACK graph changes and a port reports another latency range
LatencyChange ==
  /\ \E r \in PortLatencies \ {port_latency} : port_latency' = r
  /\ UNCHANGED <<bufvars, prod_pc, playvars, rtvars, connvars, sink, cfgvars,
                 pollvars, histvars, now, xfervars, delayvars, delayhist,
                 racehist, convvars>>

\* ------------------------------------------- jack_client_open_if_needed
bufhist == <<frames_pushed, frames_pulled, free_at_call, overflowed,
             flushed_clean, cb_after_flush>>

\* lines 236-266 run by thread who: the attempt, unlock, return
OpenIfNeededBody(who) ==
  /\ client_mutex = who
  /\ SetConn(OpenAttempt(CurrentConn, sink))
  /\ opened_by' = IF client_is_open = 0 /\ client_is_open' = 1
                  THEN who ELSE opened_by
  /\ closed_by' = IF client_is_open = 0 /\ client_is_open' = 1
                  THEN "none" ELSE closed_by
  /\ client_mutex' = pthread_mutex_unlock(client_mutex)

\* lines 271-278 run by the producer: the close, unlock, return.
\* jack_deactivate (line 272) returns when the process callback is not
\* running and will not be called again.
CloseBody(call) ==
  /\ client_mutex = "producer"
  /\ client_is_open # 0 => rt_pc = "idle"
  /\ SetConn(CloseAttempt(CurrentConn))
  /\ opened_by' = IF client_is_open' = 0 THEN "none" ELSE opened_by
  /\ closed_by' = IF client_is_open = 1 /\ client_is_open' = 0
                  THEN call ELSE closed_by
  /\ client_mutex' = pthread_mutex_unlock(client_mutex)

\* ------------------------------------------------------------- jack_start
\* line 394 calling line 235
JackStartLock ==
  /\ prod_pc = "idle"
  /\ client_mutex = "free"
  /\ client_mutex' = "producer"
  /\ prod_pc' = "start_body"
  /\ UNCHANGED <<bufvars, playvars, rtvars, client_is_open, client, left_port,
                 right_port, sample_rate, sessions, active, sink, cfgvars,
                 pollvars, histvars, restvars>>

\* lines 236-266 and 394-396
JackStartBody ==
  /\ prod_pc = "start_body"
  /\ OpenIfNeededBody("producer")
  /\ prod_pc' = "idle"
  /\ UNCHANGED <<bufvars, playvars, rtvars, sink, cfgvars, pollvars, bufhist, restvars>>

\* -------------------------------------------------------------- jack_stop
\* line 433: the call
JackStopCall ==
  /\ prod_pc = "idle"
  /\ prod_pc' = "stop"
  /\ UNCHANGED <<bufvars, playvars, rtvars, connvars, sink, cfgvars,
                 pollvars, histvars, restvars>>

\* line 435 when auto-disconnect is not configured: return
JackStopReturn ==
  /\ prod_pc = "stop"
  /\ ~jack_auto_client_disconnect
  /\ prod_pc' = "idle"
  /\ UNCHANGED <<bufvars, playvars, rtvars, connvars, sink, cfgvars,
                 pollvars, histvars, restvars>>

\* lines 435-436 calling line 270
JackStopLock ==
  /\ prod_pc = "stop"
  /\ jack_auto_client_disconnect
  /\ client_mutex = "free"
  /\ client_mutex' = "producer"
  /\ prod_pc' = "stop_body"
  /\ UNCHANGED <<bufvars, playvars, rtvars, client_is_open, client, left_port,
                 right_port, sample_rate, sessions, active, sink, cfgvars,
                 pollvars, histvars, restvars>>

\* lines 271-278 and 437
JackStopBody ==
  /\ prod_pc = "stop_body"
  /\ CloseBody("stop")
  /\ prod_pc' = "idle"
  /\ UNCHANGED <<bufvars, playvars, rtvars, sink, cfgvars, pollvars, bufhist, restvars>>

\* ------------------------------------------------------------ jack_deinit
\* line 282 calling line 270
JackDeinitLock ==
  /\ prod_pc = "idle"
  /\ client_mutex = "free"
  /\ client_mutex' = "producer"
  /\ prod_pc' = "deinit_body"
  /\ UNCHANGED <<bufvars, playvars, rtvars, client_is_open, client, left_port,
                 right_port, sample_rate, sessions, active, sink, cfgvars,
                 pollvars, histvars, restvars>>

\* lines 271-278
JackDeinitBody ==
  /\ prod_pc = "deinit_body"
  /\ CloseBody("deinit")
  /\ prod_pc' = "deinit_cancel"
  /\ UNCHANGED <<bufvars, playvars, rtvars, sink, cfgvars, pollvars, bufhist, restvars>>

\* lines 283-287: pthread_cancel of the poller thread if there is one
DeinitCancelRequest(thread_exists, requested) ==
  IF thread_exists THEN TRUE ELSE requested

JackDeinitCancel ==
  /\ prod_pc = "deinit_cancel"
  /\ cancel_requested' = DeinitCancelRequest(poller_pc # "none", cancel_requested)
  /\ prod_pc' = "deinit_done"
  /\ UNCHANGED <<bufvars, playvars, rtvars, connvars, sink, cfgvars, poller_pc,
                 histvars, restvars>>

\* ------------------------------ open_client_if_necessary_thread_function
\* the test of line 292 inverted
PollerAfterCheckInverted(cio) == IF cio # 0 THEN "lock" ELSE "sleep"

\* line 292: where the poller goes after reading client_is_open
PollerAfterCheck(cio) == IF cio = 0 THEN "lock" ELSE "sleep"

\* lines 291-292
PollerCheck ==
  /\ poller_pc = "check"
  /\ jack_auto_client_open_interval # 0
  /\ poller_pc' = PollerAfterCheck(client_is_open)
  /\ UNCHANGED <<bufvars, prod_pc, playvars, rtvars, connvars, sink, cfgvars,
                 cancel_requested, histvars, restvars>>

\* lines 293-294 calling line 235
PollerLock ==
  /\ poller_pc = "lock"
  /\ client_mutex = "free"
  /\ client_mutex' = "poller"
  /\ poller_pc' = "body"
  /\ UNCHANGED <<bufvars, prod_pc, playvars, rtvars, client_is_open, client,
                 left_port, right_port, sample_rate, sessions, active, sink,
                 cfgvars, cancel_requested, histvars, restvars>>

\* lines 236-266, then line 296
PollerBody ==
  /\ poller_pc = "body"
  /\ OpenIfNeededBody("poller")
  /\ poller_pc' = "sleep"
  /\ UNCHANGED <<bufvars, prod_pc, playvars, rtvars, sink, cfgvars,
                 cancel_requested, bufhist, restvars>>

\* line 296: sleep returns; sleep is a cancellation point, so it does not
\* return once cancellation has been requested
PollerWake ==
  /\ poller_pc = "sleep"
  /\ ~cancel_requested
  /\ poller_pc' = "check"
  /\ UNCHANGED <<bufvars, prod_pc, playvars, rtvars, connvars, sink, cfgvars,
                 cancel_requested, histvars, restvars>>

\* The poller has deferred cancellation (the default): a pending request is
\* acted on at a cancellation point.  sleep (line 296) is one; debug (line
\* 293) and the socket calls inside jack_client_open (line 238) may be.  A
\* thread cancelled inside jack_client_open never unlocks client_mutex.
CancellationPoints == {"sleep", "lock", "body"}

PollerCancelled ==
  /\ cancel_requested
  /\ poller_pc \in CancellationPoints
  /\ poller_pc' = "cancelled"
  /\ UNCHANGED <<bufvars, prod_pc, playvars, rtvars, connvars, sink, cfgvars,
                 cancel_requested, histvars, restvars>>

\* ---------------------------------------------------------------- the Sink
\* The JACK server comes, goes and changes its behaviour at any time.
SinkChange ==
  /\ \E m \in SinkModes \ {sink} : sink' = m
  /\ UNCHANGED <<bufvars, prod_pc, playvars, rtvars, connvars, cfgvars,
                 pollvars, histvars, restvars>>

\* --------------------------------------------------------- specifications
\* everything
Next ==
  \/ PlayBegin \/ PlayCopy \/ PlayLock \/ PlayCommit
  \/ CbBegin \/ CbLock \/ CbTransfer \/ CbSilence
  \/ Flush
  \/ JackStartLock \/ JackStartBody
  \/ JackStopCall \/ JackStopReturn \/ JackStopLock \/ JackStopBody
  \/ JackDeinitLock \/ JackDeinitBody \/ JackDeinitCancel
  \/ PollerCheck \/ PollerLock \/ PollerBody \/ PollerWake \/ PollerCancelled
  \/ SinkChange
  \/ DelayLock \/ DelayReadTime \/ DelayReadOccupancy \/ DelayCompute
  \/ Tick \/ LatencyChange
  \/ Convert

Spec == Init /\ [][Next]_vars

\* the producer pushing and asking for the delay, the real-time thread
\* pulling
NextSnapshot ==
  \/ PlayBegin \/ PlayCopy \/ PlayLock \/ PlayCommit
  \/ CbBegin \/ CbLock \/ CbTransfer \/ CbSilence
  \/ DelayLock \/ DelayReadTime \/ DelayReadOccupancy \/ DelayCompute

SpecSnapshot == Init /\ [][NextSnapshot]_vars

\* the producer pushing once and then asking for the delay again and again,
\* the real-time thread pulling, the clock running
NextDelay ==
  \/ FirstPlay \/ PlayCopy \/ PlayLock \/ PlayCommit
  \/ CbBegin \/ CbLock \/ CbTransfer \/ CbSilence
  \/ DelayLock \/ DelayReadTime \/ DelayReadOccupancy \/ DelayCompute
  \/ Tick

\* jack_init with a healthy server and neither poller nor auto-disconnect
\* configured
InitPlain ==
  /\ InitBackend
  /\ sink = "ok"
  /\ jack_auto_client_open_interval = 0
  /\ ~jack_auto_client_disconnect

\* the converter applied to any one 16-bit sample
InitConvert ==
  /\ InitPlain
  /\ port_latency = [left |-> NoLatency, right |-> NoLatency]
  /\ conv_in \in SHRT_MIN..SHRT_MAX
  /\ conv_out = Indeterminate

SpecConvert == InitConvert /\ [][Convert]_vars

\* the same with the ports connected, or not, before the run
InitDelay ==
  /\ InitPlain
  /\ port_latency \in PortLatencies
  /\ conv_in = 0
  /\ conv_out = Indeterminate

SpecDelay == InitDelay /\ [][NextDelay]_vars

\* one producer pushing, the real-time thread pulling, no flush
NextSPSC ==
  \/ PlayBegin \/ PlayCopy \/ PlayLock \/ PlayCommit
  \/ CbBegin \/ CbLock \/ CbTransfer \/ CbSilence

SpecSPSC == Init /\ [][NextSPSC]_vars

\* the three threads and a flush from anywhere: one play, any number of
\* delay queries, starts, stops and callbacks, a deinit; the server stays
\* as jack_init found it
ProducerSteps ==
  \/ FirstPlay \/ PlayCopy \/ PlayLock \/ PlayCommit
  \/ DelayLock \/ DelayReadTime \/ DelayReadOccupancy \/ DelayCompute
  \/ JackStartLock \/ JackStartBody
  \/ JackStopCall \/ JackStopReturn \/ JackStopLock \/ JackStopBody
  \/ JackDeinitLock \/ JackDeinitBody \/ JackDeinitCancel

RtSteps == CbBegin \/ CbLock \/ CbTransfer \/ CbSilence

PollerSteps ==
  \/ PollerCheck \/ PollerLock \/ PollerBody \/ PollerWake \/ PollerCancelled

NextLocks == ProducerSteps \/ RtSteps \/ PollerSteps \/ Flush

SpecLocks == Init /\ [][NextLocks]_vars

\* jack_flush called by the producer thread between two calls of play
ProducerFlush == prod_pc = "idle" /\ Flush

\* the buffer with flush, every flush coming between two calls of play
NextSerial ==
  \/ PlayBegin \/ PlayCopy \/ PlayLock \/ PlayCommit
  \/ CbBegin \/ CbLock \/ CbTransfer \/ CbSilence
  \/ ProducerFlush

SpecSerial == Init /\ [][NextSerial]_vars

\* the buffer with flush
NextBuffer ==
  \/ PlayBegin \/ PlayCopy \/ PlayLock \/ PlayCommit
  \/ CbBegin \/ CbLock \/ CbTransfer \/ CbSilence
  \/ Flush

SpecBuffer == Init /\ [][NextBuffer]_vars

\* the connection: start, stop, deinit, the poller and the Sink
NextConn ==
  \/ JackStartLock \/ JackStartBody
  \/ JackStopCall \/ JackStopReturn \/ JackStopLock \/ JackStopBody
  \/ JackDeinitLock \/ JackDeinitBody \/ JackDeinitCancel
  \/ PollerCheck \/ PollerLock \/ PollerBody \/ PollerWake \/ PollerCancelled
  \/ SinkChange

SpecConn == Init /\ [][NextConn]_vars

\* the poller and the threads holding a lock keep running; a thread waiting
\* for client_mutex gets it if it is free again and again
SpecConnLive ==
  /\ SpecConn
  /\ WF_vars(PollerCheck)
  /\ SF_vars(PollerLock)
  /\ WF_vars(PollerBody)
  /\ WF_vars(PollerWake)
  /\ WF_vars(JackStartBody)
  /\ WF_vars(JackStopBody)
  /\ WF_vars(JackDeinitBody)

\* ================================================================= claims
capacity_in_frames == buffer_size \div 4

\* C1: in every reachable state the occupancy is at least 0 and at most the
\* capacity of the buffer in frames.
CapacityInvariant ==
  /\ 0 <= audio_occupancy
  /\ audio_occupancy <= capacity_in_frames

\* a step of the play in progress
PlayStep == prod_pc \in {"copy", "lock", "commit"} /\ prod_pc' # prod_pc

\* C2: no step of a play that was called with more frames than were free
\* changes the stored bytes, the cursors or the occupancy, and such a play
\* returns Overflow.
OverflowRejection ==
  [][(PlayStep /\ samples > free_at_call) =>
       /\ storage' = storage
       /\ audio_eoq' = audio_eoq
       /\ audio_toq' = audio_toq
       /\ audio_occupancy' = audio_occupancy
       /\ (prod_pc' = "idle" => play_result' = "Overflow")]_vars

\* C3: with one producer and the real-time callback and no flush, the frames
\* pushed minus the frames delivered is the occupancy, in every state.
Conservation == frames_pushed - frames_pulled = audio_occupancy

\* a state where pushes and pulls have both happened, something is queued
\* and both threads are in the middle of a call
ConservationWitness ==
  /\ frames_pushed > 0
  /\ frames_pulled > 0
  /\ audio_occupancy > 0
  /\ prod_pc = "lock"
  /\ rt_pc = "silence"

\* the latest play pushed N = samples frames into an empty buffer and the
\* latest callback was asked for N frames and delivered N, leaving nothing
PushedNPulledN ==
  /\ prod_pc = "idle"
  /\ play_result = "ok"
  /\ free_at_call = capacity_in_frames
  /\ rt_pc \in {"silence", "idle"}
  /\ nframes = samples
  /\ frames_we_can_transfer = samples
  /\ frames_pulled = frames_pushed

\* C4: N frames pushed into an empty buffer, at any cursor offset, and then
\* pulled come out as the N frames that went in, in order, left and right.
WrapCorrectness ==
  PushedNPulledN =>
    \A i \in 1..samples :
      /\ left_buffer[i] =
           ConvertSample(LeftSampleOf(frames_pushed - samples + i))
      /\ right_buffer[i] =
           ConvertSample(RightSampleOf(frames_pushed - samples + i))

\* the push crossed the end of the buffer and was copied in two parts
WrapCorrectnessWitness ==
  /\ PushedNPulledN
  /\ samples >= 2
  /\ space_to_end_of_buffer > 0
  /\ space_to_end_of_buffer < bytes_to_transfer

\* the port buffers after a callback that found fewer frames than it was
\* asked for has returned: a full period, first the frames delivered, which
\* are the oldest queued (pushed and not yet delivered), then zeros
PeriodDelivered ==
  (rt_pc = "idle" /\ frames_we_can_transfer < nframes) =>
    /\ Len(left_buffer) = nframes
    /\ Len(right_buffer) = nframes
    /\ \A i \in 1..nframes :
         IF i > frames_we_can_transfer
         THEN left_buffer[i] = Silence /\ right_buffer[i] = Silence
         ELSE LET f == frames_pulled - frames_we_can_transfer + i IN
                /\ left_buffer[i] = ConvertSample(LeftSampleOf(f))
                /\ right_buffer[i] = ConvertSample(RightSampleOf(f))

\* the transfer step delivers min(k, occupancy) frames and empties the
\* queue when it held fewer than k
TransferCount ==
  (rt_pc = "transfer" /\ rt_pc' = "silence") =>
    /\ frames_we_can_transfer' = Min(nframes, audio_occupancy)
    /\ audio_occupancy' = audio_occupancy - frames_we_can_transfer'
    /\ (audio_occupancy < nframes => audio_occupancy' = 0)

\* C5: a callback asked for k frames with m < k queued writes k frames per
\* channel, the m oldest queued frames and then k - m zeros, and leaves the
\* occupancy 0; the frames delivered are min(k, occupancy).
UnderflowFill == [](PeriodDelivered) /\ [][TransferCount]_vars

\* C6: after a flush with no push committed since, both cursors and the
\* occupancy are 0, and a callback whose transfer comes then delivers no
\* queued frame: its whole period is silence.
FlushScenario ==
  /\ flushed_clean =>
       /\ audio_toq = audio_lmb
       /\ audio_eoq = audio_lmb
       /\ audio_occupancy = 0
  /\ (rt_pc = "idle" /\ cb_after_flush) =>
       /\ frames_we_can_transfer = 0
       /\ \A i \in 1..nframes :
            left_buffer[i] = Silence /\ right_buffer[i] = Silence

\* frames were queued when the flush came, and a callback has run since
FlushScenarioWitness ==
  /\ flushed_clean
  /\ frames_pushed > frames_pulled
  /\ cb_after_flush
  /\ rt_pc = "idle"
  /\ nframes > 0

\* every step of an open attempt succeeds
SinkHealthy == sink = "ok" /\ Cardinality(sessions) < MaxSessions

PollerAlive == poller_pc \notin {"none", "cancelled"} /\ ~cancel_requested

\* C7: when the client is closed and the poller is running and not
\* cancelled, then the client becomes open, unless the Sink stops being
\* healthy or the poller is cancelled.
ReconnectionLiveness ==
  (client_is_open = 0 /\ PollerAlive /\ SinkHealthy)
     ~> (client_is_open = 1 \/ ~SinkHealthy \/ cancel_requested)

ReconnectionWitness == client_is_open = 1 /\ opened_by = "poller"

\* C8: jack_stop closes the client when auto-disconnect is configured, and
\* then the client is closed when it returns; otherwise no step of it
\* changes client_is_open or the client handle.
StopEffect ==
  [][/\ (prod_pc = "stop" /\ prod_pc' # "stop") =>
          (prod_pc' = "idle" <=> ~jack_auto_client_disconnect)
     /\ (prod_pc = "stop_body" /\ prod_pc' = "idle") => client_is_open' = 0
     /\ ((prod_pc = "idle" /\ prod_pc' = "stop")
           \/ (prod_pc = "stop" /\ prod_pc' = "idle")) =>
          (client_is_open' = client_is_open /\ client' = client)]_vars

StopEffectWitness ==
  /\ prod_pc = "idle"
  /\ jack_auto_client_disconnect
  /\ closed_by = "stop"
  /\ client_is_open = 0

\* an open attempt completes: the step of jack_client_open_if_needed that
\* finds the client closed
OpenAttemptStep ==
  /\ client_is_open = 0
  /\ \/ prod_pc = "start_body" /\ prod_pc' = "idle"
     \/ poller_pc = "body" /\ poller_pc' = "sleep"

\* C9: an open attempt in which some step fails leaves the client closed.
FailedOpenLeavesClosed ==
  [][(OpenAttemptStep /\ ~SinkHealthy) => client_is_open' = 0]_vars

\* C10: once jack_deinit has returned the client is closed.
DeinitLeavesClosed == prod_pc = "deinit_done" => client_is_open = 0

\* ------------------------------------------------------------ jack_delay
\* C11: the time of the latest transfer and the occupancy that one call of
\* jack_delay uses are read with no transfer between the two reads: the
\* occupancy it uses is the occupancy there was when it read that time,
\* which is what the transfer that wrote the time left plus the frames
\* committed since.
AtomicDelaySnapshot ==
  prod_pc = "delay_compute" =>
    /\ ~pull_between
    /\ audio_occupancy_now = delay_expect

AtomicDelaySnapshotWitness ==
  /\ prod_pc = "delay_compute"
  /\ frames_pulled > 0
  /\ audio_occupancy_now > 0
  /\ audio_occupancy_now = frames_pushed - frames_pulled
  /\ AtomicDelaySnapshot

\* a second estimate is about to be stored, taken at a later clock reading
\* than the one before it, with no commit, transfer or flush since the
\* snapshot of the one before it
SecondEstimate ==
  /\ prod_pc = "delay_compute"
  /\ prod_pc' = "idle"
  /\ prev_time_now # -1
  /\ steady
  /\ prev_time_now < time_now

ConversionBounds ==
  conv_out # Indeterminate =>
    /\ conv_out[2] > 0
    /\ -conv_out[2] <= conv_out[1]
    /\ conv_out[1] <= conv_out[2]
    /\ conv_in = 32767 => conv_out[1] = conv_out[2]
    /\ conv_in = -32768 => conv_out[1] = -conv_out[2]
    /\ conv_in = 0 => conv_out[1] = 0
    /\ conv_in >= 0 => conv_out[1] * 32767 = conv_in * conv_out[2]
    /\ conv_in < 0 => conv_out[1] * 32768 = conv_in * conv_out[2]

ConversionBoundsWitness ==
  /\ conv_in = -32768
  /\ conv_out # Indeterminate
  /\ SameValue(conv_out, <<-1, 1>>)

WrappingDistance == (audio_eoq - audio_toq) % buffer_size

\* C15: whenever buffer_mutex is free, and no play was called with more
\* frames than were free, the wrapping distance from the read cursor to the
\* write cursor is the occupancy in bytes modulo the size of the buffer.
SpanInvariant ==
  (buffer_mutex = "free" /\ ~overflowed) =>
    WrappingDistance = (audio_occupancy * 2 * 2) % buffer_size

\* -------------------------------------------------------- lock discipline
\* the guarded variables a step of the producer thread reads or writes:
\* line 92; lines 94 and 100-102; lines 96-97 and 104-105; line 406;
\* line 408; lines 415-417
ProducerStepTouches ==
  IF prod_pc = "idle" /\ prod_pc' = "copy" THEN {"audio_eoq"}
  ELSE IF prod_pc = "copy" /\ prod_pc' = "lock" THEN {"audio_eoq"}
  ELSE IF prod_pc = "commit" /\ prod_pc' = "idle"
    THEN {"audio_occupancy", "audio_eoq"}
  ELSE IF prod_pc = "delay_time" /\ prod_pc' = "delay_occupancy"
    THEN {"time_of_latest_transfer"}
  ELSE IF prod_pc = "delay_occupancy" /\ prod_pc' = "delay_compute"
    THEN {"audio_occupancy"}
  ELSE IF prod_pc = "delay_compute" /\ prod_pc' = "idle"
    THEN IF latest_left_latency_range.min + latest_left_latency_range.max < 2
         THEN {"latest_left_latency_range", "latest_right_latency_range"}
         ELSE {"latest_left_latency_range"}
  ELSE {}

\* the guarded variables a step of the real-time thread reads or writes:
\* lines 143-178
RtStepTouches ==
  IF rt_pc = "transfer" /\ rt_pc' = "silence"
  THEN {"audio_occupancy", "audio_toq", "time_of_latest_transfer",
        "latest_left_latency_range", "latest_right_latency_range"}
  ELSE {}

\* C16: every read or write of the occupancy, the cursors, the time of the
\* latest transfer and the latency ranges that play, the callback and
\* jack_delay make is made by a thread that holds buffer_mutex.
LockDiscipline ==
  [][/\ ProducerStepTouches # {} => buffer_mutex = "producer"
     /\ RtStepTouches # {} => buffer_mutex = "rt"]_vars

\* ------------------------------------------------------------- the poller
\* C17: the poller thread is never terminated while it holds client_mutex.
PollerCancelSafe == poller_pc = "cancelled" => client_mutex # "poller"

\* C18: whenever client_mutex is free, the sessions opened at the server
\* and not closed are one when the client is open and none when it is
\* closed.
SessionOwnership ==
  client_mutex = "free" => Cardinality(sessions) = client_is_open

\* ------------------------------------------------- flush during a play
\* the frames this transfer stores are the first frames of the latest play
DeliversLatestPlay ==
  \A i \in 1..frames_we_can_transfer' :
    /\ left_buffer'[i]
         = ConvertSample(LeftSampleOf(frames_pushed - samples + i))
    /\ right_buffer'[i]
         = ConvertSample(RightSampleOf(frames_pushed - samples + i))

\* C19: when a flush came after a play had copied its bytes and before it
\* took the lock, then once that play has returned the wrapping distance
\* between the cursors is the occupancy in bytes, and the frames the next
\* transfer delivers are the frames that play has written, not stale or
\* unwritten ones.
FlushDuringPlay ==
  [][/\ (race' = "done" /\ ~overflowed' /\ prod_pc' = "idle"
         /\ buffer_mutex' = "free") =>
          (audio_eoq' - audio_toq') % buffer_size
            = (audio_occupancy' * 2 * 2) % buffer_size
     /\ (race = "done" /\ ~overflowed /\ rt_pc = "transfer"
         /\ rt_pc' = "silence") => DeliversLatestPlay]_vars

\* ------------------------------------------------------ deadlock freedom
Threads == {"producer", "rt", "poller"}

\* the thread is inside a call
Busy(t) ==
  CASE t = "producer" -> prod_pc \notin {"idle", "deinit_done"}
    [] t = "rt" -> rt_pc # "idle"
    [] t = "poller" -> poller_pc \in {"check", "lock", "body"}

\* the thread that holds what thread t is blocked on: the holder of the
\* mutex it is locking, or the real-time thread when t is in jack_close
\* and the callback is running
WaitsFor(t) ==
  CASE t = "producer" ->
         IF prod_pc = "lock" /\ buffer_mutex # "free" THEN buffer_mutex
         ELSE IF prod_pc = "stop" /\ jack_auto_client_disconnect
                 /\ client_mutex # "free" THEN client_mutex
         ELSE IF prod_pc \in {"stop_body", "deinit_body"}
                 /\ client_is_open # 0 /\ rt_pc # "idle" THEN "rt"
         ELSE "none"
    [] t = "rt" ->
         IF rt_pc = "lock" /\ buffer_mutex # "free" THEN buffer_mutex
         ELSE "none"
    [] t = "poller" ->
         IF poller_pc = "lock" /\ client_mutex # "free" THEN client_mutex
         ELSE "none"

\* the thread is between a lock and its unlock, or is running the callback
InCritical(t) ==
  CASE t = "producer" ->
         prod_pc \in {"commit", "delay_time", "delay_occupancy",
                      "start_body", "stop_body", "deinit_body"}
    [] t = "rt" -> rt_pc # "idle"
    [] t = "poller" -> poller_pc = "body"

CanStep(t) ==
  CASE t = "producer" -> ENABLED ProducerSteps
    [] t = "rt" -> ENABLED RtSteps
    [] t = "poller" -> ENABLED PollerSteps

\* thread t can take a step, or is blocked on a thread that is where it
\* will release what t is blocked on and that can progress in its turn
RECURSIVE CanProgress(_, _)
CanProgress(t, k) ==
  IF WaitsFor(t) = "none" THEN CanStep(t)
  ELSE /\ k > 0
       /\ InCritical(WaitsFor(t))
       /\ CanProgress(WaitsFor(t), k - 1)

\* C20: no thread holds buffer_mutex and client_mutex together, and every
\* thread that is inside a call can take a step or is blocked on a chain of
\* threads, none twice, that ends with one that can: no state is a
\* deadlock, and a jack_close that holds client_mutex while the callback
\* runs is not blocked for ever.
DeadlockFreedom ==
  /\ \A t \in Threads : ~(buffer_mutex = t /\ client_mutex = t)
  /\ \A t \in Threads : Busy(t) => CanProgress(t, Cardinality(Threads))

DeadlockFreedomWitness ==
  /\ poller_pc = "lock"
  /\ WaitsFor("poller") = "producer"
  /\ prod_pc = "stop_body"
  /\ WaitsFor("producer") = "rt"
  /\ rt_pc = "transfer"
  /\ buffer_mutex = "rt"
  /\ audio_occupancy > 0
  /\ DeadlockFreedom

====
